---- MODULE Spec2Model ----
(***************************************************************************)
(* luavisors: process supervision, signal forwarding and periodic tasks.   *)
(*                                                                         *)
(* The model follows src/src/process.rs (exec and the five closures of the *)
(* handle it returns, the stream capture tasks, the forwarding daemon),    *)
(* src/src/unix.rs (signal catalog, kill) and src/src/init.rs (every).     *)
(*                                                                         *)
(* Script calls are polled by smol::block_on on the main thread; tasks     *)
(* started with smol::spawn (capture tasks, the daemon, periodic tasks)    *)
(* run on the global executor's threads.  Every step below is one stretch  *)
(* of code between two suspension points, and steps of different tasks     *)
(* interleave freely.                                                      *)
(*                                                                         *)
(* Environment: the operating system behaves as POSIX describes.  Reading  *)
(* a pipe to end-of-file and waiting on one's own unreaped child succeed;  *)
(* kill(2) fails exactly for a pid that is not in the process table or a   *)
(* signal number out of range; spawning fails for a missing binary.  A    *)
(* pipe holds PipeCap bytes: a child that writes more blocks until the     *)
(* pipe is read, and the pipe is at end-of-file once the child has ended.  *)
(***************************************************************************)
EXTENDS Integers, Sequences, FiniteSets, TLC

(* ------------------------------ bounds -------------------------------- *)

\* script calls made on the handle in one run
MaxCalls == 2

\* forwarded signals that are counted
MaxSignals == 2

\* arguments in one exec call, and elements in one table argument
MaxArgs == 2

\* bytes the kernel holds in a pipe before a writer blocks
PipeCap == 2

\* periodic tasks the script creates in one run
MaxTasks == 2

\* invocations of one periodic callable that are counted
MaxTicks == 2

(* --------------------------- signal catalog --------------------------- *)

\* unix.rs SIGNAL_TABLE: (name, Signal) in catalog order
SIGNAL_TABLE ==
  << <<"SIGHUP", "Hup">>, <<"SIGINT", "Int">>, <<"SIGQUIT", "Quit">>,
     <<"SIGILL", "Ill">>, <<"SIGTRAP", "Trap">>, <<"SIGABRT", "Abort">>,
     <<"SIGBUS", "Bus">>, <<"SIGFPE", "Fpe">>, <<"SIGKILL", "Kill">>,
     <<"SIGUSR1", "Usr1">>, <<"SIGSEGV", "Segv">>, <<"SIGUSR2", "Usr2">>,
     <<"SIGPIPE", "Pipe">>, <<"SIGALRM", "Alarm">>, <<"SIGTERM", "Term">>,
     <<"SIGCHLD", "Child">>, <<"SIGCONT", "Cont">>, <<"SIGSTOP", "Stop">>,
     <<"SIGTSTP", "Tstp">>, <<"SIGTTIN", "Ttin">>, <<"SIGTTOU", "Ttou">>,
     <<"SIGURG", "Urg">>, <<"SIGXCPU", "Xcpu">>, <<"SIGXFSZ", "Xfsz">>,
     <<"SIGVTALRM", "Vtalarm">>, <<"SIGPROF", "Prof">>, <<"SIGWINCH", "Winch">>,
     <<"SIGIO", "Io">>, <<"SIGSYS", "Sys">> >>

\* `signal as i32`: the number of a Signal (Linux numbering; the test
\* test_signal_table_fn pins SIGKILL to 9)
SignalAsI32(signal) ==
  CASE signal = "Hup" -> 1 [] signal = "Int" -> 2 [] signal = "Quit" -> 3
    [] signal = "Ill" -> 4 [] signal = "Trap" -> 5 [] signal = "Abort" -> 6
    [] signal = "Bus" -> 7 [] signal = "Fpe" -> 8 [] signal = "Kill" -> 9
    [] signal = "Usr1" -> 10 [] signal = "Segv" -> 11 [] signal = "Usr2" -> 12
    [] signal = "Pipe" -> 13 [] signal = "Alarm" -> 14 [] signal = "Term" -> 15
    [] signal = "Child" -> 17 [] signal = "Cont" -> 18 [] signal = "Stop" -> 19
    [] signal = "Tstp" -> 20 [] signal = "Ttin" -> 21 [] signal = "Ttou" -> 22
    [] signal = "Urg" -> 23 [] signal = "Xcpu" -> 24 [] signal = "Xfsz" -> 25
    [] signal = "Vtalarm" -> 26 [] signal = "Prof" -> 27 [] signal = "Winch" -> 28
    [] signal = "Io" -> 29 [] signal = "Sys" -> 31

\* the Signal column of the catalog, in catalog order
TableSignals == [i \in 1..Len(SIGNAL_TABLE) |-> SIGNAL_TABLE[i][2]]

\* a plausible slip: the fault signals are not filtered out
valid_signals_keeps_faults ==
  SelectSeq(TableSignals, LAMBDA signal : signal \notin {"Kill", "Stop"})

\* unix.rs valid_signals: the catalog minus the signals that cannot be caught
valid_signals ==
  SelectSeq(TableSignals,
            LAMBDA signal : signal \notin {"Kill", "Stop", "Ill", "Fpe", "Segv"})

(* ------------------------------ values -------------------------------- *)

\* Option<T>: None is the empty sequence, Some(x) the one-element sequence
None == << >>

Some(x) == << x >>

\* Result and script values returned by a call: tag "ok" carries val (an
\* integer) or data (a byte string), "nil" is the script's absent value,
\* "err" carries the message
Ok(v) == [tag |-> "ok", val |-> v, data |-> << >>, err |-> ""]

OkData(d) == [tag |-> "ok", val |-> 0, data |-> d, err |-> ""]

Nil == [tag |-> "nil", val |-> 0, data |-> << >>, err |-> ""]

Err(e) == [tag |-> "err", val |-> 0, data |-> << >>, err |-> e]

Pending == [tag |-> "pending", val |-> 0, data |-> << >>, err |-> ""]

\* ExitStatus of a terminated child: by a signal, or with an exit code
Signaled(signum) == [signal |-> Some(signum), code |-> None]

Exited(code) == [signal |-> None, code |-> Some(code)]

(* ---------------------------- script values --------------------------- *)

\* LuaValue: k is the variant; s the string, n the integer or the boolean
\* (1, 0), seq the sequence part of a table
LuaNil == [k |-> "nil", s |-> "", n |-> 0, seq |-> << >>]

LuaBoolean(b) == [k |-> "boolean", s |-> "", n |-> IF b THEN 1 ELSE 0, seq |-> << >>]

LuaInteger(i) == [k |-> "integer", s |-> "", n |-> i, seq |-> << >>]

LuaString(str) == [k |-> "string", s |-> str, n |-> 0, seq |-> << >>]

LuaTable(values) == [k |-> "table", s |-> "", n |-> 0, seq |-> values]

\* lua_spawn, `arg.to_string()?` on a value that is not a table: nil and
\* booleans are spelled out, integers printed in decimal, strings kept
ValueToString(v) ==
  CASE v.k = "nil" -> "nil"
    [] v.k = "boolean" -> IF v.n = 1 THEN "true" ELSE "false"
    [] v.k = "integer" -> ToString(v.n)
    [] v.k = "string" -> v.s

\* lua_spawn, the String conversion of sequence_values::<String>(): strings
\* and numbers convert, every other value is a conversion error
StringFromLua(v) ==
  CASE v.k = "string" -> OkData(<< v.s >>)
    [] v.k = "integer" -> OkData(<< ToString(v.n) >>)
    [] OTHER -> Err("error converting Lua " \o v.k \o " to String")

\* lua_spawn, t.sequence_values::<String>().collect::<LuaResult<Vec<_>>>():
\* the table's elements converted in sequence order, or the first error
RECURSIVE SequenceValues(_)
SequenceValues(values) ==
  IF values = << >> THEN OkData(<< >>)
  ELSE LET first == StringFromLua(Head(values))
           rest == SequenceValues(Tail(values))
       IN  IF first.tag = "err" THEN first
           ELSE IF rest.tag = "err" THEN rest
           ELSE OkData(first.data \o rest.data)

\* Vec::extend / Vec::push: appended at the end
Extend(vargs, more) == vargs \o more

\* lua_spawn, the loop over args: a table contributes its sequence values,
\* any other value its string; an element that does not convert ends the
\* loop with the error
RECURSIVE LuaSpawnVargs(_, _)
LuaSpawnVargs(vargs, args) ==
  IF args = << >> THEN OkData(vargs)
  ELSE LET arg == Head(args)
       IN  IF arg.k = "table"
           THEN LET values == SequenceValues(arg.seq)
                IN  IF values.tag = "err" THEN values
                    ELSE LuaSpawnVargs(Extend(vargs, values.data), Tail(args))
           ELSE LuaSpawnVargs(Extend(vargs, << ValueToString(arg) >>), Tail(args))

\* lua_spawn: the Vec handed to spawn(cmd, vargs), or the conversion error
lua_spawn_vargs(args) == LuaSpawnVargs(<< >>, args)

\* values a script puts into a table argument
TableElements == { LuaString("b"), LuaInteger(1), LuaTable(<< LuaString("c") >>) }

\* sequences of at most n values of the set S
SeqUpTo(S, n) == UNION { [1..m -> S] : m \in 0..n }

\* values a script passes as one argument of exec
ArgValues ==
  { LuaString("a"), LuaBoolean(TRUE), LuaNil }
    \cup { LuaTable(values) : values \in SeqUpTo(TableElements, MaxArgs) }

\* argument lists of an exec call
ArgLists == SeqUpTo(ArgValues, MaxArgs)

\* the argument lists of the runs in which the handle is then used: none,
\* and one whose table holds a value that does not convert
ExecArgs == { << >>, << LuaTable(<< LuaTable(<< LuaString("c") >>) >>) >> }

(* ------------------------ the operating system ------------------------ *)

\* the programs a script asks exec to run: what each writes, how it ends
Programs == {"echo", "false", "sleep", "missing"}

\* the binary exists (Command::spawn fails otherwise)
ProgramExists(cmd) == cmd # "missing"

\* bytes the program writes to a stream before it ends
ProgramOutput(cmd, stream) ==
  IF cmd = "echo" /\ stream = "stdout" THEN << "h", "i", "\n" >> ELSE << >>

\* the program ends by itself (sleep runs until it is signalled)
ProgramExitsAlone(cmd) == cmd \in {"echo", "false"}

\* its exit code when it does
ProgramExitCode(cmd) == IF cmd = "echo" THEN 0 ELSE 1

\* pid the kernel gives the child
ChildPid == 4242

\* pid of the host itself (std::process::id())
HostPid == 4200

\* a pid no process has
NoPid == 9999

\* signal numbers kill(2) accepts (0 probes for existence)
ValidSignum(signum) == signum \in 0..64

\* default disposition: the signal ends a process that does not handle it
\* (0 is the probe; CHLD, CONT, URG, WINCH are ignored; the stop signals stop)
Terminates(signum) == signum \in (1..31) \ {17, 18, 19, 20, 21, 22, 23, 28}

\* signals the environment raises at the host in this model
HostSignals == {"Term", "Child", "Segv"}

\* the pid is in the process table: the host, or the child while it runs or
\* is a zombie not yet waited for
PidExists(ch, pid) ==
  pid = HostPid \/ (pid = ChildPid /\ ch.st \in {"running", "zombie"})

\* kill(2): 0 when the signal number is valid and the pid is in the process
\* table, -1 otherwise
OsKill(ch, pid, signum) ==
  IF ValidSignum(signum) /\ PidExists(ch, pid) THEN 0 ELSE 0 - 1

\* errno after kill(2) returned -1: the signal number is looked at first
Errno(ch, pid, signum) == IF ~ValidSignum(signum) THEN "EINVAL" ELSE "ESRCH"

\* (pid, sig) pairs a script gives to init.kill: the child, the host itself
\* and a pid nobody has; the probe, SIGTERM and a number that is no signal
\* (a script that terminates its own host is left out)
KillInputs ==
  ({ChildPid, HostPid, NoPid} \X {0, 15, 1337}) \ { << HostPid, 15 >> }

\* the child after kill(2): a running child that the signal terminates
\* becomes a zombie whose wait status names the signal
Deliver(ch, pid, signum) ==
  IF OsKill(ch, pid, signum) = 0 /\ ch.st = "running" /\ Terminates(signum)
  THEN [ch EXCEPT !.st = "zombie", !.status = Some(Signaled(signum))]
  ELSE ch

Streams == {"stdout", "stderr"}

Calls == 1..MaxCalls

\* the forwarding daemon's identity among the holders of the handle's lock
Daemon == MaxCalls + 1

Ops == {"pid", "status", "kill", "stdout", "stderr"}

Tasks == 1..MaxTasks

VARIABLES
  execPc,      \* exec's position: start, spawned, stdout_task, stderr_task,
               \*   daemon, returned, failed
  program,     \* the cmd given to exec
  args,        \* the arguments the script gives to exec
  argv,        \* the argument list the child was spawned with (None before)
  execRes,     \* what exec returned to the script
  child,       \* the OS child: [st, status, cached]
  taskSt,      \* per stream, the capture task: unspawned, draining, finished
  taskRes,     \* per stream, the finished task's io::Result<Vec<u8>>
  guard,       \* per stream, the Option in the Mutex still holds the task
  taskCount,   \* per stream, capture tasks started
  taskData,    \* per stream, the Vec the capture task has read into
  pipe,        \* per stream, bytes written and not yet read
  wrote,       \* per stream, how many bytes of its output the child wrote
  rwWriters,   \* calls holding the handle's RwLock for writing
  rwReaders,   \* calls (and the daemon) holding it for reading
  callOp,      \* per call slot, the closure called ("none" before the call)
  callPc,      \* per call slot, its position
  callRes,     \* per call slot, what it returned
  daemonPc,    \* forward_signals: unspawned, start, reading, subscribe,
               \*   waiting, ended
  daemonPid,   \* the pid forward_signals read
  daemonRes,   \* what forward_signals returned
  signals,     \* the daemon's subscription (the Signals it was built from)
  yielded,     \* the signal the subscription yielded last (None before)
  sent,        \* the kill(pid, sig) call the daemon made last (None before)
  forwards,    \* signals the daemon has sent on (saturates at MaxSignals)
  pidReads,    \* times the daemon read the pid
  lastKill,    \* the latest init.kill call of the script (None before)
  piped,       \* per stream: the child was spawned with a pipe for it
  hostOwner,   \* the script runtime still owns the Lua host
  hostStrong,  \* strong references periodic tasks hold on the host
  everyPc,     \* per periodic task: unspawned, timer, calling, exited
  lastCall,    \* per task, outcome of its latest invocation: none, ok, err
  invocations, \* per task, invocations started (saturates at MaxTicks)
  failures,    \* per task, invocations that failed (saturates at MaxTicks)
  running      \* per task, invocations started and not yet completed

execVars == << args, argv, execRes, piped >>

pipeVars == << taskCount, taskData, pipe, wrote >>

scriptVars == << lastKill >>

procVars == << execPc, execVars, pipeVars, scriptVars, program, child, taskSt, taskRes, guard,
               rwWriters, rwReaders, callOp, callPc, callRes,
               daemonPc, daemonPid, daemonRes, signals, yielded, sent, forwards,
               pidReads >>

everyVars == << hostOwner, hostStrong, everyPc, lastCall, invocations, failures,
                running >>

vars == << procVars, everyVars >>

\* before exec is called; the script's argument list is left open
InitState ==
  /\ execPc = "start"
  /\ program = ""
  /\ argv = None
  /\ execRes = Pending
  /\ child = [st |-> "none", status |-> None, cached |-> None]
  /\ taskSt = [s \in Streams |-> "unspawned"]
  /\ taskRes = [s \in Streams |-> Pending]
  /\ guard = [s \in Streams |-> FALSE]
  /\ taskCount = [s \in Streams |-> 0]
  /\ taskData = [s \in Streams |-> << >>]
  /\ pipe = [s \in Streams |-> << >>]
  /\ wrote = [s \in Streams |-> 0]
  /\ rwWriters = {}
  /\ rwReaders = {}
  /\ callOp = [c \in Calls |-> "none"]
  /\ callPc = [c \in Calls |-> "idle"]
  /\ callRes = [c \in Calls |-> Pending]
  /\ daemonPc = "unspawned"
  /\ daemonPid = 0
  /\ daemonRes = Pending
  /\ signals = << >>
  /\ yielded = None
  /\ sent = None
  /\ forwards = 0
  /\ pidReads = 0
  /\ lastKill = None
  /\ hostOwner = TRUE
  /\ hostStrong = 0
  /\ everyPc = [t \in Tasks |-> "unspawned"]
  /\ lastCall = [t \in Tasks |-> "none"]
  /\ invocations = [t \in Tasks |-> 0]
  /\ failures = [t \in Tasks |-> 0]
  /\ running = [t \in Tasks |-> 0]

\* spawn: .stdout(Stdio::piped()).stderr(Stdio::piped()), so that
\* child.stdout.take() and child.stderr.take() are Some in exec
StdioPiped == [stream \in Streams |-> TRUE]

Init == InitState /\ args \in ExecArgs /\ piped = StdioPiped

\* the script that only creates periodic tasks calls exec with nothing
InitEvery == InitState /\ args = << >> /\ piped = StdioPiped

\* every argument list within the bounds
InitArgs == InitState /\ args \in ArgLists /\ piped = StdioPiped

\* spawn_stream_task and read_stream_task take an Option: the streams of a
\* child may or may not have come with a pipe, as in the functions' own
\* tests that hand them None
InitStream == InitState /\ args = << >> /\ piped \in [Streams -> BOOLEAN]

(* -------------------------------- exec --------------------------------- *)

\* process.rs spawn: Command::spawn with both pipes; io::Error for a binary
\* that cannot be executed
spawn(cmd, vargs) ==
  IF ProgramExists(cmd) THEN OkData(vargs) ELSE Err("No such file or directory")

\* lua_spawn: the arguments are converted, then Ok(spawn(cmd, vargs).await?)
lua_spawn(cmd, luaArgs) ==
  LET vargs == lua_spawn_vargs(luaArgs)
  IN  IF vargs.tag = "err" THEN vargs ELSE spawn(cmd, vargs.data)

\* a slip: the error of lua_spawn is dropped and exec goes on
ExecAfterSpawn_unchecked(res) == "spawned"

\* exec: `lua_spawn(&lua, cmd, args).await?` returns the error to the caller
ExecAfterSpawn(res) == IF res.tag = "err" THEN "failed" ELSE "spawned"

\* exec, up to the `?` of lua_spawn: the child exists only when both the
\* conversion and Command::spawn succeeded
ExecSpawn(cmd) ==
  /\ execPc = "start"
  /\ program' = cmd
  /\ LET res == lua_spawn(cmd, args)
     IN  /\ execPc' = ExecAfterSpawn(res)
         /\ IF res.tag = "ok"
            THEN /\ child' = [st |-> "running", status |-> None, cached |-> None]
                 /\ argv' = Some(res.data)
            ELSE /\ child' = child
                 /\ argv' = argv
         /\ execRes' = IF ExecAfterSpawn(res) = "failed" THEN res ELSE execRes
  /\ UNCHANGED << args, piped, pipeVars, taskSt, taskRes, guard, rwWriters, rwReaders,
                  callOp, callPc, callRes, daemonPc, daemonPid, daemonRes,
                  signals, yielded, sent, forwards, pidReads, everyVars, scriptVars >>

\* a slip: the task is only created when the stream is first read
TaskStart_lazy(given) == FALSE

\* a slip: the guard is filled whether or not a pipe was given
GuardHolds_always(given) == TRUE

\* spawn_stream_task: Arc::new(Mutex::new(task)), the task being
\* stream.map(..): Some for Some(pipe), None for None
GuardHolds(given) == given

\* spawn_stream_task: stream.map(|stream| smol::spawn(...)) starts the task
\* right away when a pipe is given
TaskStart(given) == given

\* process.rs spawn_stream_task(stream): Some(pipe) starts a capture task
\* and the guard holds it; None leaves the guard empty
spawn_stream_task(stream, given) ==
  /\ taskSt' = [taskSt EXCEPT ![stream] = IF TaskStart(given) THEN "draining" ELSE @]
  /\ taskCount' = [taskCount EXCEPT ![stream] = IF TaskStart(given) THEN @ + 1 ELSE @]
  /\ guard' = [guard EXCEPT ![stream] = GuardHolds(given)]

\* exec: let stdout = spawn_stream_task(child.stdout.take())
ExecStdoutTask ==
  /\ execPc = "spawned"
  /\ spawn_stream_task("stdout", piped["stdout"])
  /\ execPc' = "stdout_task"
  /\ UNCHANGED << execVars, taskData, pipe, wrote, program, child, taskRes, rwWriters, rwReaders,
                  callOp, callPc, callRes, daemonPc, daemonPid, daemonRes,
                  signals, yielded, sent, forwards, pidReads, everyVars, scriptVars >>

\* exec: let stderr = spawn_stream_task(child.stderr.take())
ExecStderrTask ==
  /\ execPc = "stdout_task"
  /\ spawn_stream_task("stderr", piped["stderr"])
  /\ execPc' = "stderr_task"
  /\ UNCHANGED << execVars, taskData, pipe, wrote, program, child, taskRes, rwWriters, rwReaders,
                  callOp, callPc, callRes, daemonPc, daemonPid, daemonRes,
                  signals, yielded, sent, forwards, pidReads, everyVars, scriptVars >>

\* exec: Arc::new(RwLock::new(child)); smol::spawn(forward_signals).detach()
ExecSpawnDaemon ==
  /\ execPc = "stderr_task"
  /\ daemonPc' = "start"
  /\ execPc' = "daemon"
  /\ UNCHANGED << execVars, pipeVars, program, child, taskSt, taskRes, guard, rwWriters,
                  rwReaders, callOp, callPc, callRes, daemonPid, daemonRes,
                  signals, yielded, sent, forwards, pidReads, everyVars, scriptVars >>

\* a slip: exec joins the daemon and hands its error to the script
Detach_joined(res) == IF res.tag = "err" THEN res ELSE Ok(0)

\* exec: smol::spawn(forward_signals(..)).detach() drops the daemon's
\* Result; exec ends with Ok(result), the handle
Detach(res) == Ok(0)

\* exec: the table with the five closures is returned to the script
ExecReturn ==
  /\ execPc = "daemon"
  /\ execPc' = "returned"
  /\ execRes' = Detach(daemonRes)
  /\ UNCHANGED << args, argv, piped, pipeVars, program, child, taskSt, taskRes, guard, rwWriters,
                  rwReaders, callOp, callPc, callRes, daemonPc, daemonPid,
                  daemonRes, signals, yielded, sent, forwards, pidReads, everyVars, scriptVars >>

(* ------------------------- the child, the pipes ----------------------- *)

\* the smaller of two numbers
Min(a, b) == IF a < b THEN a ELSE b

\* write(2) on a pipe: the child writes as much of the rest of its output
\* as the pipe has room for, and blocks while the pipe is full; a stream
\* that is no pipe takes the output at once and nothing of it is kept
ChildWrite(stream) ==
  /\ child.st = "running"
  /\ wrote[stream] < Len(ProgramOutput(program, stream))
  /\ Len(pipe[stream]) < PipeCap
  /\ LET output == ProgramOutput(program, stream)
         n == IF piped[stream]
              THEN Min(Len(output) - wrote[stream], PipeCap - Len(pipe[stream]))
              ELSE Len(output) - wrote[stream]
     IN  /\ pipe' = IF piped[stream]
                    THEN [pipe EXCEPT ![stream] =
                            @ \o SubSeq(output, wrote[stream] + 1, wrote[stream] + n)]
                    ELSE pipe
         /\ wrote' = [wrote EXCEPT ![stream] = @ + n]
  /\ UNCHANGED << execPc, execVars, taskCount, taskData, program, child, taskSt,
                  taskRes, guard, rwWriters, rwReaders, callOp, callPc, callRes,
                  daemonPc, daemonPid, daemonRes, signals, yielded, sent, forwards,
                  pidReads, everyVars, scriptVars >>

\* the child ends by itself with its exit code, its output written
ChildExit ==
  /\ child.st = "running"
  /\ ProgramExitsAlone(program)
  /\ \A stream \in Streams : wrote[stream] = Len(ProgramOutput(program, stream))
  /\ child' = [child EXCEPT !.st = "zombie",
                            !.status = Some(Exited(ProgramExitCode(program)))]
  /\ UNCHANGED << execPc, execVars, pipeVars, program, taskSt, taskRes, guard, rwWriters,
                  rwReaders, callOp, callPc, callRes, daemonPc, daemonPid,
                  daemonRes, signals, yielded, sent, forwards, pidReads, everyVars, scriptVars >>

\* the capture task's body, stream.read_to_end(&mut data): a read takes
\* the bytes the pipe holds and appends them to data
StreamTaskRead(stream) ==
  /\ taskSt[stream] = "draining"
  /\ pipe[stream] # << >>
  /\ taskData' = [taskData EXCEPT ![stream] = @ \o pipe[stream]]
  /\ pipe' = [pipe EXCEPT ![stream] = << >>]
  /\ UNCHANGED << execPc, execVars, taskCount, wrote, program, child, taskSt,
                  taskRes, guard, rwWriters, rwReaders, callOp, callPc, callRes,
                  daemonPc, daemonPid, daemonRes, signals, yielded, sent, forwards,
                  pidReads, everyVars, scriptVars >>

\* the capture task's body: read_to_end returns Ok at end-of-file, which the
\* empty pipe reaches once the child, its only writer, has terminated; the
\* task completes with Ok(data)
StreamTaskFinish(stream) ==
  /\ taskSt[stream] = "draining"
  /\ pipe[stream] = << >>
  /\ child.st \in {"zombie", "reaped"}
  /\ taskSt' = [taskSt EXCEPT ![stream] = "finished"]
  /\ taskRes' = [taskRes EXCEPT ![stream] = OkData(taskData[stream])]
  /\ UNCHANGED << execPc, execVars, pipeVars, program, child, guard, rwWriters, rwReaders,
                  callOp, callPc, callRes, daemonPc, daemonPid, daemonRes,
                  signals, yielded, sent, forwards, pidReads, everyVars, scriptVars >>

(* ------------------------- the handle's closures ---------------------- *)

daemonVars == << daemonPc, daemonPid, daemonRes, signals, yielded, sent, forwards,
                pidReads >>

streamVars == << taskSt, taskRes, guard >>

lockVars == << rwWriters, rwReaders >>

\* RwLock::read() resolves: nobody holds the lock for writing
CanRead == rwWriters = {}

\* a lock that lets a second writer in beside a reader or a writer
CanWrite_unguarded == TRUE

\* RwLock::write() resolves: nobody holds the lock at all
CanWrite == rwWriters = {} /\ rwReaders = {}

\* the script calls one of the closures of the handle exec returned
CallStart(c, op) ==
  /\ execPc = "returned"
  /\ callOp[c] = "none"
  /\ \A b \in Calls : b < c => callOp[b] # "none"
  /\ callOp' = [callOp EXCEPT ![c] = op]
  /\ callPc' = [callPc EXCEPT ![c] =
                  CASE op = "pid" -> "rlock"
                    [] op \in {"status", "kill"} -> "wlock"
                    [] op \in Streams -> "take"]
  /\ UNCHANGED << execPc, execVars, pipeVars, program, child, streamVars, lockVars, callRes,
                  daemonVars, everyVars, scriptVars >>

\* pid: child.read().await
PidAcquire(c) ==
  /\ callOp[c] = "pid" /\ callPc[c] = "rlock"
  /\ CanRead
  /\ rwReaders' = rwReaders \cup {c}
  /\ callPc' = [callPc EXCEPT ![c] = "rheld"]
  /\ UNCHANGED << execPc, execVars, pipeVars, program, child, streamVars, rwWriters, callOp,
                  callRes, daemonVars, everyVars, scriptVars >>

\* pid: Ok(guard.id()), the read guard dropped at the end of the statement
PidReturn(c) ==
  /\ callOp[c] = "pid" /\ callPc[c] = "rheld"
  /\ rwReaders' = rwReaders \ {c}
  /\ callRes' = [callRes EXCEPT ![c] = Ok(ChildPid)]
  /\ callPc' = [callPc EXCEPT ![c] = "done"]
  /\ UNCHANGED << execPc, execVars, pipeVars, program, child, streamVars, rwWriters, callOp,
                  daemonVars, everyVars, scriptVars >>

\* status: child.write().await
StatusAcquire(c) ==
  /\ callOp[c] = "status" /\ callPc[c] = "wlock"
  /\ CanWrite
  /\ rwWriters' = rwWriters \cup {c}
  /\ callPc' = [callPc EXCEPT ![c] = "waiting"]
  /\ UNCHANGED << execPc, execVars, pipeVars, program, child, streamVars, rwReaders, callOp,
                  callRes, daemonVars, everyVars, scriptVars >>

\* a slip: only the exit code is looked at, the signal is forgotten
StatusCode_code_only(status) ==
  IF status.code # None THEN Ok(status.code[1])
  ELSE Err("failed to get status code")

\* a slip: the exit code is never looked at
StatusCode_signal_only(status) ==
  IF status.signal # None THEN Ok(status.signal[1])
  ELSE Err("failed to get status code")

\* status: status.signal().or_else(|| status.code()).ok_or(...)
StatusCode(status) ==
  IF status.signal # None THEN Ok(status.signal[1])
  ELSE IF status.code # None THEN Ok(status.code[1])
  ELSE Err("failed to get status code")

\* a slip: the exit status is not kept in the handle
Cache_forgotten(status) == None

\* Child::status() keeps the ExitStatus it obtained in the handle
Cache(status) == Some(status)

\* status: Child::status() resolves once the child has terminated (it reaps
\* the zombie and keeps the ExitStatus in the handle), the code is computed
\* and the write guard, held across the wait, is dropped
StatusReturn(c) ==
  /\ callOp[c] = "status" /\ callPc[c] = "waiting"
  /\ child.cached # None \/ child.st = "zombie"
  /\ LET status == IF child.cached # None THEN child.cached[1] ELSE child.status[1]
     IN  /\ child' = [child EXCEPT !.st = "reaped", !.cached = Cache(status)]
         /\ callRes' = [callRes EXCEPT ![c] = StatusCode(status)]
  /\ rwWriters' = rwWriters \ {c}
  /\ callPc' = [callPc EXCEPT ![c] = "done"]
  /\ UNCHANGED << execPc, execVars, pipeVars, program, streamVars, rwReaders, callOp,
                  daemonVars, everyVars, scriptVars >>

\* kill: child.write().await
KillAcquire(c) ==
  /\ callOp[c] = "kill" /\ callPc[c] = "wlock"
  /\ CanWrite
  /\ rwWriters' = rwWriters \cup {c}
  /\ callPc' = [callPc EXCEPT ![c] = "wheld"]
  /\ UNCHANGED << execPc, execVars, pipeVars, program, child, streamVars, rwReaders, callOp,
                  callRes, daemonVars, everyVars, scriptVars >>

\* kill: guard.kill()? then Ok(Signal::Kill as i32).  Child::kill sends
\* SIGKILL unless the handle already holds the exit status (then it is Ok
\* and nothing is sent)
KillReturn(c) ==
  /\ callOp[c] = "kill" /\ callPc[c] = "wheld"
  /\ LET signum == SignalAsI32("Kill")
         result == IF child.cached # None THEN 0 ELSE OsKill(child, ChildPid, signum)
     IN  /\ child' = IF child.cached # None THEN child
                     ELSE Deliver(child, ChildPid, signum)
         /\ callRes' = [callRes EXCEPT ![c] =
                          IF result = 0 THEN Ok(signum) ELSE Err("os error")]
  /\ rwWriters' = rwWriters \ {c}
  /\ callPc' = [callPc EXCEPT ![c] = "done"]
  /\ UNCHANGED << execPc, execVars, pipeVars, program, streamVars, rwReaders, callOp,
                  daemonVars, everyVars, scriptVars >>

\* a slip: the task is looked at but left in the guard
GuardAfterTake_kept(held) == held

\* Option::take leaves None behind
GuardAfterTake(held) == FALSE

\* a slip: a read that finds its stream consumed drops the other stream's
\* capture as well
OnConsumed_clears(guards) == [stream \in Streams |-> FALSE]

\* take() on a None: the Option stays None and no other guard is touched
OnConsumed(guards) == guards

\* a slip: the stream closures go through the handle's lock like pid does
ReadGate_locked(writers) == writers = {}

\* the stdout and stderr closures hold the stream's Arc<Mutex<..>> only;
\* they never touch the handle's RwLock
ReadGate(writers) == TRUE

\* stdout / stderr, read_stream_task:
\* task.lock().await.take().ok_or_else(|| "stream already consumed")?
\* The Mutex is locked, the Option taken and the Mutex unlocked within the
\* one statement, with no suspension in between: one step per read
ReadTake(c) ==
  /\ callOp[c] \in Streams /\ callPc[c] = "take"
  /\ ReadGate(rwWriters)
  /\ LET stream == callOp[c]
     IN  /\ guard' = IF guard[stream]
                     THEN [guard EXCEPT ![stream] = GuardAfterTake(guard[stream])]
                     ELSE OnConsumed(guard)
         /\ IF guard[stream]
            THEN /\ callPc' = [callPc EXCEPT ![c] = "await"]
                 /\ callRes' = callRes
            ELSE /\ callPc' = [callPc EXCEPT ![c] = "done"]
                 /\ callRes' = [callRes EXCEPT ![c] = Err("stream already consumed")]
  /\ UNCHANGED << execPc, execVars, pipeVars, program, child, taskSt, taskRes, lockVars, callOp,
                  daemonVars, everyVars, scriptVars >>

\* read_stream_task: the value made of the task's io::Result<Vec<u8>>
ReadValue(res) ==
  IF res.tag = "err" THEN Err(res.err)
  ELSE IF res.data = << >> THEN Nil
  ELSE OkData(res.data)

\* read_stream_task: task.await? resolves when the capture task has finished
ReadAwait(c) ==
  /\ callOp[c] \in Streams /\ callPc[c] = "await"
  /\ taskSt[callOp[c]] = "finished"
  /\ callRes' = [callRes EXCEPT ![c] = ReadValue(taskRes[callOp[c]])]
  /\ callPc' = [callPc EXCEPT ![c] = "done"]
  /\ UNCHANGED << execPc, execVars, pipeVars, program, child, streamVars, lockVars, callOp,
                  daemonVars, everyVars, scriptVars >>

(* ------------------------ the forwarding daemon ----------------------- *)

\* forward_signals: child.read().await
DaemonAcquire ==
  /\ daemonPc = "start"
  /\ CanRead
  /\ rwReaders' = rwReaders \cup {Daemon}
  /\ daemonPc' = "reading"
  /\ UNCHANGED << execPc, execVars, pipeVars, program, child, streamVars, rwWriters, callOp,
                  callPc, callRes, daemonPid, daemonRes, signals, yielded,
                  sent, forwards, pidReads, everyVars, scriptVars >>

\* forward_signals: let pid = guard.id() as i32, the read guard dropped
DaemonReadPid ==
  /\ daemonPc = "reading"
  /\ daemonPid' = ChildPid
  /\ pidReads' = pidReads + 1
  /\ rwReaders' = rwReaders \ {Daemon}
  /\ daemonPc' = "subscribe"
  /\ UNCHANGED << execPc, execVars, pipeVars, program, child, streamVars, rwWriters, callOp,
                  callPc, callRes, daemonRes, signals, yielded, sent, forwards,
                  everyVars, scriptVars >>

\* Signals::new(list): registering a handler for a signal that cannot be
\* caught is refused
SignalsNew(list) ==
  IF \E i \in 1..Len(list) : list[i] \in {"Kill", "Stop", "Ill", "Fpe", "Segv"}
  THEN Err("os error") ELSE Ok(0)

\* forward_signals: let mut signals = unix::signal_wait().await?, for the
\* result `res` of the construction
signal_wait(res) ==
  /\ daemonPc = "subscribe"
  /\ IF res.tag = "ok"
     THEN /\ signals' = valid_signals
          /\ daemonPc' = "waiting"
          /\ daemonRes' = daemonRes
     ELSE /\ signals' = signals
          /\ daemonPc' = "ended"
          /\ daemonRes' = res
  /\ UNCHANGED << execPc, execVars, pipeVars, program, child, streamVars, lockVars, callOp,
                  callPc, callRes, daemonPid, yielded, sent, forwards, pidReads,
                  everyVars, scriptVars >>

\* the subscription is constructed for the valid signals
DaemonSubscribe == signal_wait(SignalsNew(valid_signals))

\* the operating system refuses the subscription (no descriptor left, say)
DaemonSubscribeFails == signal_wait(Err("os error"))

\* a slip: the return value of kill(2) is handed on without looking at it
unix_kill_unchecked(ch, pid, sig) == Ok(OsKill(ch, pid, sig))

\* unix.rs kill: the raw sender's result, Err(last_os_error) when kill(2)
\* returned -1
unix_kill(ch, pid, sig) ==
  LET result == OsKill(ch, pid, sig)
      error == Errno(ch, pid, sig)
  IN  IF result = 0 - 1 THEN Err(error) ELSE Ok(result)

\* a slip: the daemon sends to the process group instead of the child
ForwardTarget_group(pid) == 0

\* forward_signals: the pid given to unix::kill is the one read at startup
ForwardTarget(pid) == pid

\* forward_signals, one turn of the loop: the subscription yields a signal
\* the host received, and unix::kill(pid, sig).await? sends it on; a failed
\* delivery returns the error out of forward_signals
DaemonForward(signal) ==
  /\ daemonPc = "waiting"
  /\ \E i \in 1..Len(signals) : signals[i] = signal
  /\ LET sig == SignalAsI32(signal)
         pid == ForwardTarget(daemonPid)
         res == unix_kill(child, pid, sig)
     IN  /\ yielded' = Some(signal)
         /\ sent' = Some([pid |-> pid, sig |-> sig, ok |-> res.tag = "ok"])
         /\ forwards' = IF forwards < MaxSignals THEN forwards + 1 ELSE forwards
         /\ child' = Deliver(child, pid, sig)
         /\ IF res.tag = "ok"
            THEN /\ daemonPc' = "waiting"
                 /\ daemonRes' = daemonRes
            ELSE /\ daemonPc' = "ended"
                 /\ daemonRes' = res
  /\ UNCHANGED << execPc, execVars, pipeVars, program, streamVars, lockVars, callOp, callPc,
                  callRes, daemonPid, signals, pidReads, everyVars, scriptVars >>

\* forward_signals: `signal?`, the subscription yields an error and the
\* daemon returns it
DaemonSignalError ==
  /\ daemonPc = "waiting"
  /\ daemonPc' = "ended"
  /\ daemonRes' = Err("os error")
  /\ UNCHANGED << execPc, execVars, pipeVars, program, child, streamVars, lockVars, callOp,
                  callPc, callRes, daemonPid, signals, yielded, sent, forwards,
                  pidReads, everyVars, scriptVars >>

\* forward_signals: signals.next() yields None, the loop is left and the
\* daemon returns Ok(())
DaemonStreamEnd ==
  /\ daemonPc = "waiting"
  /\ daemonPc' = "ended"
  /\ daemonRes' = Ok(0)
  /\ UNCHANGED << execPc, execVars, pipeVars, program, child, streamVars, lockVars, callOp,
                  callPc, callRes, daemonPid, signals, yielded, sent, forwards,
                  pidReads, everyVars, scriptVars >>

(* --------------------------- the script's kill ------------------------ *)

\* LuaError::runtime(err): the script error made of the sender's error
LuaErrorRuntime(res) == Err("runtime error: " \o res.err)

\* init.rs kill: unix::kill(pid, sig).await.map_err(LuaError::runtime)
init_kill(ch, pid, sig) ==
  LET res == unix_kill(ch, pid, sig)
  IN  IF res.tag = "err" THEN LuaErrorRuntime(res) ELSE res

\* the script calls init.kill(pid, sig); lastKill keeps the call, whether the
\* pid existed, what kill(2) returned with its errno, and the two results
ScriptKill(pid, sig) ==
  /\ lastKill' = Some([pid |-> pid, sig |-> sig,
                       exists |-> PidExists(child, pid),
                       os |-> OsKill(child, pid, sig),
                       errno |-> Errno(child, pid, sig),
                       raw |-> unix_kill(child, pid, sig),
                       res |-> init_kill(child, pid, sig)])
  /\ child' = Deliver(child, pid, sig)
  /\ UNCHANGED << execPc, execVars, pipeVars, program, streamVars, lockVars, callOp,
                  callPc, callRes, daemonVars, everyVars >>

(* -------------------------- the periodic tasks ------------------------ *)

\* WeakLua::try_upgrade succeeds while some strong reference is left
HostResolvable == hostOwner \/ hostStrong > 0

\* n + 1, saturating at the bound
Bump(n) == IF n < MaxTicks THEN n + 1 ELSE n

\* a slip: the task is given a clone of the host instead of a weak reference
WeakLua_cloned(strong) == strong + 1

\* every: let weak_lua = lua.weak() adds no strong reference, and the `lua`
\* every was called with is not moved into the task
WeakLua(strong) == strong

\* init.rs every: lua.weak(), then the detached task is spawned
Every(t) ==
  /\ everyPc[t] = "unspawned"
  /\ hostOwner
  /\ \A u \in Tasks : u < t => everyPc[u] # "unspawned"
  /\ everyPc' = [everyPc EXCEPT ![t] = "timer"]
  /\ hostStrong' = WeakLua(hostStrong)
  /\ UNCHANGED << procVars, hostOwner, lastCall, invocations, failures,
                  running >>

\* a slip: the callable is invoked without asking whether the host is left
Upgraded_unchecked(resolvable) == TRUE

\* every: `let Some(_lua) = weak_lua.try_upgrade() else { break }`
Upgraded(resolvable) == resolvable

\* a slip: the invocation is started as a task of its own and the loop
\* goes back to its timer without waiting for it
CallAsync_detached(pc) == "timer"

\* every: func.call_async(args).await suspends the loop in the invocation
CallAsync(pc) == "calling"

\* every, one tick: timer.next() resolves; the host is upgraded or the loop
\* breaks; func.call_async(args) is started
EveryTick(t) ==
  /\ everyPc[t] = "timer"
  /\ IF Upgraded(HostResolvable)
     THEN /\ hostStrong' = hostStrong + 1
          /\ everyPc' = [everyPc EXCEPT ![t] = CallAsync(@)]
          /\ invocations' = [invocations EXCEPT ![t] = Bump(@)]
          /\ running' = [running EXCEPT ![t] = @ + 1]
     ELSE /\ hostStrong' = hostStrong
          /\ everyPc' = [everyPc EXCEPT ![t] = "exited"]
          /\ invocations' = invocations
          /\ running' = running
  /\ UNCHANGED << procVars, hostOwner, lastCall, failures >>

\* what the loop does with a failed invocation: a slip would `break`
AfterCall_break(failed) == IF failed THEN "exited" ELSE "timer"

\* every: an error is printed and the loop goes on to the next tick
AfterCall(failed) == "timer"

\* every: the invocation completes, Ok or Err; the upgraded host reference
\* is dropped at the end of the loop body
EveryCallReturn(t, failed) ==
  /\ everyPc[t] = "calling"
  /\ lastCall' = [lastCall EXCEPT ![t] = IF failed THEN "err" ELSE "ok"]
  /\ failures' = [failures EXCEPT ![t] = IF failed THEN Bump(@) ELSE @]
  /\ hostStrong' = hostStrong - 1
  /\ running' = [running EXCEPT ![t] = @ - 1]
  /\ everyPc' = [everyPc EXCEPT ![t] = AfterCall(failed)]
  /\ UNCHANGED << procVars, hostOwner, invocations >>

\* the script runtime drops the Lua host
HostTeardown ==
  /\ hostOwner
  /\ hostOwner' = FALSE
  /\ UNCHANGED << procVars, hostStrong, everyPc, lastCall, invocations, failures,
                  running >>

(* --------------------------- specifications --------------------------- *)

\* exec, the child and its pipes, the capture tasks
NextChild ==
  \/ \E cmd \in Programs : ExecSpawn(cmd)
  \/ ExecStdoutTask
  \/ ExecStderrTask
  \/ ExecSpawnDaemon
  \/ ExecReturn
  \/ \E stream \in Streams : ChildWrite(stream)
  \/ ChildExit
  \/ \E stream \in Streams : StreamTaskRead(stream)
  \/ \E stream \in Streams : StreamTaskFinish(stream)

\* the script's calls of the handle's closures
NextCalls ==
  \/ \E c \in Calls, op \in Ops : CallStart(c, op)
  \/ \E c \in Calls : PidAcquire(c)
  \/ \E c \in Calls : PidReturn(c)
  \/ \E c \in Calls : StatusAcquire(c)
  \/ \E c \in Calls : StatusReturn(c)
  \/ \E c \in Calls : KillAcquire(c)
  \/ \E c \in Calls : KillReturn(c)
  \/ \E c \in Calls : ReadTake(c)
  \/ \E c \in Calls : ReadAwait(c)

\* the forwarding daemon's own steps
NextDaemon ==
  \/ DaemonAcquire
  \/ DaemonReadPid
  \/ DaemonSubscribe
  \/ \E signal \in HostSignals : DaemonForward(signal)

\* exec, the child, the capture tasks and the handle's closures
NextHandle == NextChild \/ NextCalls

NextProcess == NextHandle \/ NextDaemon

\* the daemon with a subscription that can fail it, the host receiving
\* SIGTERM only
NextFaultyDaemon ==
  \/ DaemonAcquire
  \/ DaemonReadPid
  \/ DaemonSubscribe
  \/ DaemonForward("Term")
  \/ DaemonSubscribeFails
  \/ DaemonSignalError
  \/ DaemonStreamEnd

\* the child's life, status() to wait for it, and init.kill called at any
\* moment
NextKill ==
  \/ NextChild
  \/ \E c \in Calls : CallStart(c, "status")
  \/ \E c \in Calls : StatusAcquire(c)
  \/ \E c \in Calls : StatusReturn(c)
  \/ \E input \in KillInputs : ScriptKill(input[1], input[2])

NextEvery ==
  \/ \E t \in Tasks : Every(t)
  \/ \E t \in Tasks : EveryTick(t)
  \/ \E t \in Tasks, failed \in BOOLEAN : EveryCallReturn(t, failed)
  \/ HostTeardown

NextArgs == \E cmd \in Programs : ExecSpawn(cmd)

\* exec, the child and its capture tasks, and the script's reads of the
\* two streams
NextStream ==
  \/ NextChild
  \/ \E c \in Calls, stream \in Streams : CallStart(c, stream)
  \/ \E c \in Calls : ReadTake(c)
  \/ \E c \in Calls : ReadAwait(c)

\* exec, the child, the handle's closures and the forwarding daemon; the
\* periodic task shares no state with them and has its own specification
Spec == Init /\ [][NextProcess]_vars

\* exec's conversion of its arguments and the spawn, for every argument list
SpecArgs == InitArgs /\ [][NextArgs]_vars

\* the runs in which the daemon, once started, is not scheduled (it touches
\* neither the pipes nor the capture tasks), under the fairness the runtime
\* gives: exec runs on to its return; a running child that has room in the
\* pipe writes, and exits when it is a program that does; a capture task
\* reads what the pipe holds and sees its end.  The script need not call
\* anything
FairHandle ==
  /\ Init /\ [][NextHandle]_vars
  /\ WF_vars(ExecStdoutTask) /\ WF_vars(ExecStderrTask)
  /\ WF_vars(ExecSpawnDaemon) /\ WF_vars(ExecReturn)
  /\ WF_vars(ChildExit)
  /\ \A stream \in Streams :
       /\ WF_vars(ChildWrite(stream))
       /\ WF_vars(StreamTaskRead(stream))
       /\ WF_vars(StreamTaskFinish(stream))

\* the process with a subscription that may fail at any point
SpecDaemon == Init /\ [][NextHandle \/ NextFaultyDaemon]_vars

\* the streams with and without a pipe behind them, and their reads
SpecStream == InitStream /\ [][NextStream]_vars

\* a script that also sends signals itself with init.kill
SpecKill == Init /\ [][NextKill]_vars

\* the script host and its periodic tasks
SpecEvery == InitEvery /\ [][NextEvery]_vars

\* the interval timer of a task that waits for its tick does fire
FairEvery == SpecEvery /\ \A t \in Tasks : WF_vars(EveryTick(t))

(* ------------------------------- claims -------------------------------- *)

\* reads of a stream that are past the take-once guard
PastGuard(stream) ==
  {c \in Calls : callOp[c] = stream /\ callPc[c] \in {"await", "done"}}

\* the read failed with the "stream already consumed" error
Consumed(c) ==
  callPc[c] = "done" /\ callRes[c] = Err("stream already consumed")

\* the bytes of its output the child wrote to the stream
Written(stream) == SubSeq(ProgramOutput(program, stream), 1, wrote[stream])

\* the read returned the bytes the child wrote, or nil when it wrote none
ObtainedCapture(c) ==
  /\ callPc[c] = "done"
  /\ LET bytes == Written(callOp[c])
     IN  callRes[c] = IF bytes = << >> THEN Nil ELSE OkData(bytes)

\* C1: for each stream, among the reads that have gone past the guard, in
\* whatever order and however interleaved, exactly one holds the capture (it
\* is still awaiting the drain, or it has returned the captured data, nil
\* when there is none) and every other one failed with "stream already
\* consumed".
C1_ExactlyOneReadObtains ==
  \A stream \in Streams :
    PastGuard(stream) # {} =>
      \E c \in PastGuard(stream) :
        /\ callPc[c] = "await" \/ ObtainedCapture(c)
        /\ \A d \in PastGuard(stream) \ {c} : Consumed(d)

\* C1 witness: two reads of stdout were made; the one issued second took the
\* capture and returned the bytes, the other failed as consumed
C1_Witness ==
  \E c, d \in Calls :
    /\ c > d
    /\ callOp[c] = "stdout" /\ callOp[d] = "stdout"
    /\ ObtainedCapture(c) /\ callRes[c].tag = "ok"
    /\ Consumed(d)

\* a status() call holds the write lock and is suspended on a child that is
\* still running
StatusSuspended ==
  /\ child.st = "running"
  /\ \E w \in rwWriters : callOp[w] = "status" /\ callPc[w] = "waiting"

\* C2: a pid() call completes without waiting on any other operation in
\* flight on the handle: a pid() call that has been issued is never held
\* back while a status() call is suspended waiting for the process to exit.
C2_PidNeverWaitsOnStatus ==
  \A c \in Calls :
    callOp[c] = "pid" /\ callPc[c] = "rlock" /\ StatusSuspended => CanRead

\* C3: at most one exclusive operation (status or kill) holds the handle,
\* and no reader holds it together with an exclusive operation.
C3_ExclusiveAccess ==
  /\ Cardinality(rwWriters) <= 1
  /\ rwWriters # {} => rwReaders = {}
  /\ \A w \in rwWriters : callOp[w] \in {"status", "kill"}
  /\ \A r \in rwReaders : r = Daemon \/ callOp[r] = "pid"

\* C3 witness: two readers hold shared access at once while an exclusive
\* operation is kept waiting for the lock
C3_Witness ==
  /\ Cardinality(rwReaders) >= 2
  /\ \E c \in Calls : callOp[c] \in {"status", "kill"} /\ callPc[c] = "wlock"

\* the child was terminated by the SIGKILL that kill() sent
KilledByKill ==
  /\ child.status = Some(Signaled(SignalAsI32("Kill")))
  /\ \E k \in Calls : callOp[k] = "kill" /\ callPc[k] = "done" /\ callRes[k].tag = "ok"

\* C4: with status() and kill() called on the same handle, however the two
\* interleave, a status() call that has resolved has resolved with one
\* exit code: the number of the signal that terminated the child, else the
\* child's exit code; all status() calls agree on it; and it is the number
\* of SIGKILL when kill() terminated the child.
C4_StatusKillConsistent ==
  \A s \in Calls :
    callOp[s] = "status" /\ callPc[s] = "done" =>
      /\ callRes[s].tag = "ok"
      /\ child.status # None
      /\ callRes[s].val =
           IF child.status[1].signal # None THEN child.status[1].signal[1]
           ELSE ProgramExitCode(program)
      /\ KilledByKill => callRes[s].val = SignalAsI32("Kill")
      /\ \A u \in Calls :
           callOp[u] = "status" /\ callPc[u] = "done" => callRes[u] = callRes[s]

\* C4 witness: kill() has terminated the child and status() has resolved
\* with the number of SIGKILL
C4_Witness ==
  /\ KilledByKill
  /\ \E s \in Calls :
       callOp[s] = "status" /\ callPc[s] = "done" /\ callRes[s] = Ok(SignalAsI32("Kill"))

\* C5: kill() is valid at any time after spawn: a kill() call issued while
\* the process is running does not have to wait for the process to exit by
\* itself, also when a status() call was started earlier and is suspended.
C5_KillNeverWaitsForExit ==
  \A k \in Calls :
    callOp[k] = "kill" /\ callPc[k] = "wlock" /\ child.st = "running" =>
      ~StatusSuspended

\* C6: whenever the subscription has yielded a signal, the daemon has sent
\* that signal's number to the pid it read at startup; the pid is read once,
\* it is the child's, and it is never read again or changed afterwards.
C6_ForwardsVerbatim ==
  /\ pidReads <= 1
  /\ daemonPc \in {"subscribe", "waiting", "ended"} =>
       pidReads = 1 /\ daemonPid = ChildPid
  /\ (yielded = None) = (sent = None)
  /\ (forwards = 0) = (sent = None)
  /\ sent # None =>
       sent[1].pid = daemonPid /\ sent[1].sig = SignalAsI32(yielded[1])

\* C6 witness: the daemon has sent on at least two signals, the latest one,
\* SIGCHLD, delivered to the child's pid
C6_Witness ==
  /\ forwards >= 2
  /\ yielded = Some("Child")
  /\ sent = Some([pid |-> ChildPid, sig |-> 17, ok |-> TRUE])

\* C7: a failed delivery does not terminate the daemon: after any failed
\* delivery the daemon still holds its subscription open.
C7_DaemonSurvivesFailedDelivery ==
  (sent # None /\ ~sent[1].ok) => daemonPc = "waiting"

\* the five signals that cannot be caught
Uncatchable == {"Kill", "Stop", "Ill", "Fpe", "Segv"}

\* `list` is the catalog's signals minus exactly the five: 24 of the 29
\* entries, in catalog order, without duplicates
CatalogMinusUncatchable(list) ==
  /\ Len(SIGNAL_TABLE) = 29
  /\ Len(list) = 24
  /\ Len(list) = Len(SIGNAL_TABLE) - Cardinality(Uncatchable)
  /\ \A i \in 1..Len(SIGNAL_TABLE) :
       SIGNAL_TABLE[i][2] \notin Uncatchable <=>
         \E j \in 1..Len(list) : list[j] = SIGNAL_TABLE[i][2]
  /\ \A j, k \in 1..Len(list) :
       j < k =>
         \E a, b \in 1..Len(SIGNAL_TABLE) :
           a < b /\ SIGNAL_TABLE[a][2] = list[j] /\ SIGNAL_TABLE[b][2] = list[k]
  /\ \A j, k \in 1..Len(list) : list[j] = list[k] => j = k

\* what valid_signals() returns is that list
ValidSignalsAreCatchable == CatalogMinusUncatchable(valid_signals)

\* C8: the list every daemon subscribes to is the 29-entry catalog minus
\* exactly the five uncatchable signals (24 entries, in catalog order,
\* without duplicates): a daemon past signal_wait holds a subscription to
\* that list, and no daemon is yielded or forwards one of the five.
C8_CatchableList ==
  /\ ValidSignalsAreCatchable
  /\ daemonPc \in {"waiting", "ended"} => signals = valid_signals
  /\ \A i \in 1..Len(yielded) : yielded[i] \notin Uncatchable
  /\ \A i \in 1..Len(sent) :
       \A signal \in Uncatchable : sent[i].sig # SignalAsI32(signal)

\* C8 witness: a daemon holds its subscription and has forwarded a signal
C8_Witness ==
  daemonPc = "waiting" /\ Len(signals) = 24 /\ forwards >= 1

\* C9: a failed invocation does not stop a periodic task: a task has left
\* its loop only if the host was gone, and while the host is resolvable a
\* task whose latest invocation failed is invoked again at its next tick.
C9_FailureKeepsTicking ==
  /\ [](\A t \in Tasks : everyPc[t] = "exited" => ~HostResolvable)
  /\ \A t \in Tasks :
       (everyPc[t] = "timer" /\ lastCall[t] = "err")
         ~> (everyPc[t] = "calling" \/ ~HostResolvable)

\* C9 witness: an invocation is in progress after two failed ones
C9_Witness ==
  \E t \in Tasks :
    everyPc[t] = "calling" /\ lastCall[t] = "err" /\ failures[t] >= 2

\* C10: once the host cannot be resolved, no step starts an invocation, a
\* task that acts leaves its loop, a task that left stays out; and a task
\* waiting for its tick does leave at that tick.
C10_NoCallAfterTeardown ==
  /\ [][~HostResolvable =>
          \A t \in Tasks :
            /\ everyPc'[t] # "calling"
            /\ invocations'[t] = invocations[t]
            /\ everyPc'[t] # everyPc[t] => everyPc'[t] = "exited"]_vars
  /\ [][\A t \in Tasks : everyPc[t] = "exited" => everyPc'[t] = "exited"]_vars
  /\ \A t \in Tasks :
       (everyPc[t] = "timer" /\ ~HostResolvable) ~> (everyPc[t] = "exited")

\* C10 witness: a task that had invoked its callable has left its loop
\* after the host was torn down
C10_Witness ==
  \E t \in Tasks :
    everyPc[t] = "exited" /\ invocations[t] >= 1 /\ ~hostOwner

\* C11: for each periodic task at most one invocation of its callable is in
\* progress at any time, and while one is in progress the task is suspended
\* in it and not at its timer, so that no tick is acted on before the
\* invocation has completed, successfully or with an error.
C11_OneInvocationAtATime ==
  \A t \in Tasks :
    /\ running[t] <= 1
    /\ running[t] = 1 => everyPc[t] = "calling"
    /\ everyPc[t] \in {"unspawned", "timer", "exited"} => running[t] = 0

\* C11 witness: a second invocation is in progress, started after the first
\* one had failed; the other task has completed an invocation meanwhile
C11_Witness ==
  \E t, u \in Tasks :
    /\ t # u
    /\ running[t] = 1 /\ invocations[t] >= 2 /\ lastCall[t] = "err"
    /\ lastCall[u] = "ok"

\* exec has been called and its arguments do not convert or its program
\* cannot be spawned
SpawnFails ==
  /\ execPc # "start"
  /\ lua_spawn_vargs(args).tag = "err" \/ ~ProgramExists(program)

\* no child, no capture task, no guard holding one, no daemon, no handle
NothingLeftBehind ==
  /\ child.st = "none" /\ child.status = None /\ argv = None
  /\ \A stream \in Streams :
       taskSt[stream] = "unspawned" /\ ~guard[stream] /\ taskRes[stream] = Pending
  /\ daemonPc = "unspawned" /\ pidReads = 0 /\ signals = << >> /\ sent = None
  /\ rwWriters = {} /\ rwReaders = {}
  /\ \A c \in Calls : callOp[c] = "none"

\* C12: when the arguments do not convert or the OS-level spawn fails, exec
\* has returned an error to its caller and never anything else, and nothing
\* is left behind: no child process, no capture task, no forwarding daemon,
\* no handle on which a call could be made.
C12_FailedSpawnLeavesNothing ==
  SpawnFails =>
    /\ execPc = "failed"
    /\ execRes.tag = "err"
    /\ NothingLeftBehind

\* C12 witness: exec of a binary that does not exist, with arguments that
\* convert, has returned the I/O error
C12_Witness ==
  /\ execPc = "failed" /\ program = "missing" /\ args = << >>
  /\ execRes = Err("No such file or directory")

\* the child has output left for the stream and the pipe is full
BlockedOnPipe(stream) ==
  /\ child.st = "running"
  /\ wrote[stream] < Len(ProgramOutput(program, stream))
  /\ Len(pipe[stream]) = PipeCap

\* capture tasks exec has started so far, by its position
TasksStartedAt(stream) ==
  IF stream = "stdout"
  THEN IF execPc \in {"stdout_task", "stderr_task", "daemon", "returned"} THEN 1 ELSE 0
  ELSE IF execPc \in {"stderr_task", "daemon", "returned"} THEN 1 ELSE 0

\* C13: a successful exec starts exactly one capture task per pipe, after
\* the spawn and before the daemon is started and before the handle is
\* returned; from then on a child blocked on a full pipe has a capture task
\* reading that pipe, whatever the script has or has not called; and every
\* capture task drains its pipe to end-of-file: a running child gets all of
\* its output written, and the task of a terminated child finishes.
C13_CaptureTasksDrain ==
  /\ [](\A stream \in Streams :
         /\ taskCount[stream] = TasksStartedAt(stream)
         /\ taskCount[stream] = 1 <=> taskSt[stream] \in {"draining", "finished"}
         /\ (daemonPc # "unspawned" \/ execRes.tag = "ok") => taskCount[stream] = 1
         /\ (BlockedOnPipe(stream) /\ execPc \in {"stderr_task", "daemon", "returned"})
              => taskSt[stream] = "draining")
  /\ \A stream \in Streams :
       /\ (child.st = "running" /\ wrote[stream] < Len(ProgramOutput(program, stream)))
            ~> (child.st # "running" \/ wrote[stream] = Len(ProgramOutput(program, stream)))
       /\ (child.st \in {"zombie", "reaped"}) ~> (taskSt[stream] = "finished")

\* C13 witness: the child wrote more than a pipe holds and has exited, the
\* capture task has drained all of it, and the script never read the stream
C13_Witness ==
  /\ Len(ProgramOutput(program, "stdout")) > PipeCap
  /\ child.st = "zombie" /\ child.status = Some(Exited(0))
  /\ taskSt["stdout"] = "finished"
  /\ taskRes["stdout"] = OkData(ProgramOutput(program, "stdout"))
  /\ \A c \in Calls : callOp[c] \notin Streams

\* white space as u8::is_ascii_whitespace has it
Whitespace == {" ", "\t", "\n", "\r", "\f"}

\* the bytes without the white space at their end
RECURSIVE TrimEnd(_)
TrimEnd(bytes) ==
  IF bytes = << >> THEN << >>
  ELSE IF bytes[Len(bytes)] \in Whitespace
       THEN TrimEnd(SubSeq(bytes, 1, Len(bytes) - 1))
       ELSE bytes

\* C14: a read of stdout or stderr that succeeded returned the bytes the
\* child wrote to that stream with the white space at their end removed,
\* and the absent value when the child wrote nothing: "hi" for a child that
\* wrote "hi" and a newline.
C14_ReadIsTrimmed ==
  \A c \in Calls :
    (callOp[c] \in Streams /\ callPc[c] = "done" /\ callRes[c].tag # "err") =>
      callRes[c] = IF Written(callOp[c]) = << >> THEN Nil
                   ELSE OkData(TrimEnd(Written(callOp[c])))

\* C15: stdout() and stderr() never acquire or wait on the handle's lock:
\* no holder of the lock is a stream read; a stream read can always take
\* its step at the guard, and complete once its capture task has finished,
\* also while status() holds exclusive access waiting for the exit or
\* kill() is in progress; and whether pid(), status() or kill() gets the
\* lock does not depend on any stream read.
C15_ReadsBypassHandleLock ==
  /\ \A h \in (rwWriters \cup rwReaders) \ {Daemon} : callOp[h] \notin Streams
  /\ \A c \in Calls :
       /\ (callOp[c] \in Streams /\ callPc[c] = "take") => ENABLED ReadTake(c)
       /\ (callOp[c] \in Streams /\ callPc[c] = "await"
             /\ taskSt[callOp[c]] = "finished") => ENABLED ReadAwait(c)
       /\ (callOp[c] = "pid" /\ callPc[c] = "rlock" /\ rwWriters = {})
             => ENABLED PidAcquire(c)
       /\ (callOp[c] = "status" /\ callPc[c] = "wlock"
             /\ rwWriters = {} /\ rwReaders = {}) => ENABLED StatusAcquire(c)
       /\ (callOp[c] = "kill" /\ callPc[c] = "wlock"
             /\ rwWriters = {} /\ rwReaders = {}) => ENABLED KillAcquire(c)

\* C15 witness: a read of stdout has returned the captured bytes while a
\* status() call still holds exclusive access
C15_Witness ==
  /\ \E w \in rwWriters : callOp[w] = "status" /\ callPc[w] = "waiting"
  /\ \E c \in Calls :
       callOp[c] = "stdout" /\ callPc[c] = "done" /\ callRes[c].tag = "ok"

\* wait statuses: ended by a signal, exited with a code, and neither
ExitStatuses ==
  { Signaled(n) : n \in {9, 15} } \cup { Exited(n) : n \in {0, 1} }
    \cup { [signal |-> None, code |-> None] }

\* C16: a status() call that has returned did so after the process had
\* terminated, with the number of the terminating signal when a signal ended
\* the process and with the process's exit code otherwise; the code made of
\* a wait status is an error only for a status with neither.
C16_StatusIsSignalOrCode ==
  /\ \A s \in Calls :
       callOp[s] = "status" /\ callPc[s] = "done" =>
         /\ child.st = "reaped" /\ child.status # None
         /\ callRes[s] =
              IF child.status[1].signal # None THEN Ok(child.status[1].signal[1])
              ELSE Ok(ProgramExitCode(program))
  /\ \A s \in Calls :
       (callOp[s] = "status" /\ child.st = "running") => callPc[s] # "done"
  /\ \A status \in ExitStatuses :
       StatusCode(status).tag = "err" <=> (status.signal = None /\ status.code = None)

\* C16 witness: a program that exits with code 1 by itself, and status()
\* has returned 1
C16_Witness ==
  /\ program = "false" /\ child.status = Some(Exited(1))
  /\ \E s \in Calls :
       callOp[s] = "status" /\ callPc[s] = "done" /\ callRes[s] = Ok(1)

\* what a script value contributes to the flattened list: a scalar itself,
\* a sequence the contributions of its elements in sequence order, those of
\* nested sequences included
RECURSIVE Contribution(_)
RECURSIVE Contributions(_)
Contribution(v) ==
  IF v.k = "table" THEN Contributions(v.seq)
  ELSE IF v.k = "integer" THEN << ToString(v.n) >>
  ELSE << ValueToString(v) >>

Contributions(values) ==
  IF values = << >> THEN << >>
  ELSE Contribution(Head(values)) \o Contributions(Tail(values))

\* C17: the argument list the program is spawned with is the script's
\* arguments flattened in order: for every argument list of scalars and
\* (nested) sequences of scalars, exec of a program that exists has spawned
\* it with the contributions of the arguments in their order of appearance.
C17_ArgsFlattenedInOrder ==
  (execPc # "start" /\ ProgramExists(program)) =>
    argv = Some(Contributions(args))

\* the step in which the stream read c fails
ReadFails(c) ==
  /\ callOp[c] \in Streams
  /\ callPc[c] \in {"take", "await"}
  /\ callPc'[c] = "done" /\ callRes'[c].tag = "err"

C19_KillReportsOsResult ==
  lastKill # None =>
    LET k == lastKill[1]
    IN  /\ k.os \in {0, 0 - 1}
        /\ (k.os = 0 - 1) <=> (~k.exists \/ ~ValidSignum(k.sig))
        /\ (k.os = 0 - 1) <=> (k.raw.tag = "err")
        /\ k.os = 0 - 1 => k.raw = Err(k.errno)
        /\ k.os = 0 => k.raw = Ok(0)
        /\ k.raw.tag = "ok" => k.res = k.raw
        /\ k.raw.tag = "err" => k.res = Err("runtime error: " \o k.errno)
        /\ k.sig = 1337 => k.res = Err("runtime error: EINVAL")
        /\ (k.pid = NoPid /\ k.sig # 1337) => k.res = Err("runtime error: ESRCH")
        /\ (k.pid = HostPid /\ k.sig = 0) => k.res = Ok(0)

\* C19 witness: init.kill(child's pid, 0) after status() has reaped the
\* child: the pid is gone and the script gets the error
C19_Witness ==
  /\ child.st = "reaped"
  /\ lastKill # None
  /\ lastKill[1].pid = ChildPid /\ lastKill[1].sig = 0
  /\ lastKill[1].os = 0 - 1
  /\ lastKill[1].res = Err("runtime error: ESRCH")

\* status() calls that have returned
StatusDone == {s \in Calls : callOp[s] = "status" /\ callPc[s] = "done"}

\* C20: once a status() call has returned, the handle holds the exit status
\* and it is the child's wait status for good: whatever kill() and stream
\* reads were made in between, every status() call that has returned has
\* returned the code of that one status, and a status() call that holds the
\* handle returns at once, with no wait for the child.
C20_StatusFixedOnceReturned ==
  /\ StatusDone # {} => child.cached # None
  /\ child.cached # None =>
       /\ child.st = "reaped" /\ child.cached = child.status
       /\ \A s \in StatusDone : callRes[s] = StatusCode(child.cached[1])
       /\ \A s \in Calls :
            (callOp[s] = "status" /\ callPc[s] = "waiting") => ENABLED StatusReturn(s)

\* C20 witness: two status() calls have returned, one after the other, both
\* with the exit code 0 of the program
C20_Witness ==
  /\ Cardinality(StatusDone) = 2
  /\ \A s \in StatusDone : callRes[s] = Ok(0)
  /\ child.cached = Some(Exited(0))

\* the streams whose task spawn_stream_task has been asked to make
StreamsSet ==
  {stream \in Streams :
     \/ stream = "stdout" /\ execPc \in {"stdout_task", "stderr_task", "daemon", "returned"}
     \/ stream = "stderr" /\ execPc \in {"stderr_task", "daemon", "returned"}}

\* C21: for a stream that came without a pipe, spawn_stream_task starts no
\* capture task and leaves the guard empty, and every read of that stream
\* that went to the guard, the very first one included, has failed with the
\* "stream already consumed" error that a repeated read of a piped stream
\* gets: no read of it waits, and none returns nil or data.
C21_NoPipeReadsAsConsumed ==
  /\ \A stream \in Streams :
       ~piped[stream] =>
         /\ taskCount[stream] = 0 /\ taskSt[stream] = "unspawned"
         /\ ~guard[stream]
         /\ \A c \in Calls :
              (callOp[c] = stream /\ callPc[c] # "take") => Consumed(c)
  /\ \A stream \in StreamsSet :
       piped[stream] => taskCount[stream] = 1
  /\ \A stream \in Streams :
       (piped[stream] /\ Cardinality(PastGuard(stream)) = 2) =>
         \E c \in PastGuard(stream) :
           callRes[c] = Err("stream already consumed")

\* C21 witness: stdout came without a pipe and stderr with one; the one
\* read of stdout there has been failed as consumed, while the child has
\* written its output and the first read of stderr has gone past the guard
C21_Witness ==
  /\ ~piped["stdout"] /\ piped["stderr"]
  /\ Cardinality({c \in Calls : callOp[c] = "stdout"}) = 1
  /\ \E c \in Calls : callOp[c] = "stdout" /\ Consumed(c)
  /\ program = "echo" /\ wrote["stdout"] = Len(ProgramOutput("echo", "stdout"))
  /\ \E c \in Calls : callOp[c] = "stderr" /\ callPc[c] \in {"await", "done"}

\* the periodic tasks that are inside an invocation
Invoking == {t \in Tasks : everyPc[t] = "calling"}

\* C22: the strong references periodic tasks hold on the host are exactly
\* one for each task that is inside an invocation: a task waiting for its
\* next tick (or not spawned, or stopped) holds none.  So the runtime can
\* always drop the host it owns, and once it has and no invocation is under
\* way the host can no longer be resolved, however many tasks exist.
C22_StrongOnlyWhileInvoking ==
  /\ hostStrong = Cardinality(Invoking)
  /\ \A t \in Tasks : running[t] = IF t \in Invoking THEN 1 ELSE 0
  /\ hostOwner => ENABLED HostTeardown
  /\ (~hostOwner /\ Invoking = {}) => ~HostResolvable

\* C22 witness: the host has been torn down between ticks: every task has
\* been spawned, one has completed an invocation and waits for its next
\* tick, none is inside an invocation, and the host cannot be resolved
C22_Witness ==
  /\ ~hostOwner /\ ~HostResolvable
  /\ \A t \in Tasks : everyPc[t] = "timer"
  /\ \E t \in Tasks : invocations[t] >= 1 /\ lastCall[t] # "none"

\* C23: the daemon's startup does not wait for the child to exit: a daemon
\* that has been spawned and has not yet read the pid can take its shared
\* access while a status() call is suspended waiting for the running child,
\* and so go on to open the subscription that forwards the host's signals.
C23_DaemonStartsDespiteStatus ==
  (daemonPc = "start" /\ StatusSuspended) => ENABLED DaemonAcquire

\* all that exec and the handle's five closures read or write
handleVars == << execPc, execVars, pipeVars, program, child, streamVars, lockVars,
                 callOp, callPc, callRes >>

\* the step in which the daemon ends, with an error or without
DaemonEnds == daemonPc # "ended" /\ daemonPc' = "ended"

====
